---------------------------- MODULE Spec2Model ----------------------------
(***************************************************************************)
(* A model of blockchain.py: the Blockchain class (pending pool, chain,    *)
(* peer set, hash chaining, proof of work, longest-valid-chain consensus)  *)
(* and the /mine, /transactions/new and /nodes/resolve handlers.           *)
(*                                                                         *)
(* Python lists are objects: a block's 'transactions' field and            *)
(* self.current_transactions are references into `heap`.                   *)
(*                                                                         *)
(* SHA-256 is modelled as collision free: a digest is represented by the   *)
(* canonical serialisation (json.dumps with sort_keys) it is computed      *)
(* from.  The leading hex characters of a digest, which validate()         *)
(* inspects, are a deterministic mixing function of that serialisation.    *)
(***************************************************************************)
EXTENDS Integers, Sequences, FiniteSets, TLC

VARIABLES
    chain,                 \* self.chain: sequence of blocks
    current_transactions,  \* self.current_transactions: reference to a list
    heap,                  \* the list objects: reference -> sequence of transfers
    nodes,                 \* self.nodes
    last,                  \* the last request served and what it returned
    polled,                \* the observed resolve_conflicts call: its peer responses in
                           \* iteration order and the object before the call
    cand,                  \* a candidate chain handed to valid_chain
    mutation,              \* the single mutation applied to cand, if any
    verdict,               \* what valid_chain(cand) returned
    requests               \* the requests served concurrently: for each thread
                           \* its position in the handler and its local variables

vars == <<chain, current_transactions, heap, nodes, last, polled,
          cand, mutation, verdict, requests>>

-----------------------------------------------------------------------------
(* Bounds of the model *)

MaxChain == 3       \* length of the own chain up to which /mine is requested
MaxPeerLen == 2     \* blocks in a chain served by a peer
MaxCand == 3        \* blocks in a chain grown for valid_chain alone
MaxThreads == 3     \* requests served concurrently

-----------------------------------------------------------------------------
(* Values *)

node_identifier == "node"

\* validate(..., difficulty=4)
difficulty == 4

\* the characters of a digest: two instead of the sixteen of hexdigest()
HexDigits == {0, 1}

StrCode(s) ==
    CASE s = "0" -> 0
      [] s = "node" -> 1
      [] s = "A" -> 2
      [] s = "B" -> 3
      [] s = "C" -> 4
      [] s = "peer" -> 5
      [] OTHER -> 6

\* the fixed previous_hash of the genesis block, 'secret'
Secret == <<115>>
GenesisProof == 42

Transfer(sender, recipient, amount) ==
    [sender |-> sender, recipient |-> recipient, amount |-> amount]

Reward == Transfer("0", node_identifier, 20)

\* what clients submit; a transfer is submitted again only once it has left
\* the pool, which bounds the pool
Submitted == {Transfer("A", "B", 10), Transfer("B", "C", 5)}

RECURSIVE Pow(_, _)
Pow(b, e) == IF e = 0 THEN 1 ELSE b * Pow(b, e - 1)

\* str(n) of a non-negative integer, as its decimal digits
RECURSIVE Str(_)
Str(n) == IF n < 10 THEN <<n>> ELSE Str(n \div 10) \o <<n % 10>>

-----------------------------------------------------------------------------
(* Hasher *)

RECURSIVE DumpTransactions(_)
DumpTransactions(txs) ==
    IF txs = <<>> THEN <<>>
    ELSE <<Head(txs).amount, StrCode(Head(txs).recipient), StrCode(Head(txs).sender)>>
         \o DumpTransactions(Tail(txs))

\* json.dumps(block, sort_keys=True): keys in the order index, previous_hash,
\* proof, timestamp, transactions; variable-length fields carry their length
json_dumps(block) ==
    <<block.index, Len(block.previous_hash)>> \o block.previous_hash
    \o <<block.proof, block.timestamp, Len(block.transactions)>>
    \o DumpTransactions(block.transactions)

\* Blockchain.hash: the digest of the serialised block
hash(block) == json_dumps(block)

\* the leading `d` characters of sha256(guess).hexdigest(), read as a number:
\* 0 when all of them are the character '0'
RECURSIVE Mix(_, _, _, _)
Mix(s, i, acc, m) ==
    IF i > Len(s) THEN acc ELSE Mix(s, i + 1, (acc * 7 + s[i] + 1) % m, m)

HexPrefix(guess, d) == Mix(guess, 1, 0, Pow(Cardinality(HexDigits), d))

validate(last_proof, proof, last_hash) ==
    LET guess == Str(last_proof) \o Str(proof) \o last_hash
    IN  HexPrefix(guess, difficulty) = 0

\* the search loop returning one past the proof it found
RECURSIVE SearchOnePast(_, _, _)
SearchOnePast(last_proof, last_hash, proof) ==
    IF validate(last_proof, proof, last_hash) THEN proof + 1
    ELSE SearchOnePast(last_proof, last_hash, proof + 1)

\* the search loop going on to the second proof that validates
RECURSIVE SearchSecond(_, _, _)
SearchSecond(last_proof, last_hash, proof) ==
    IF validate(last_proof, proof, last_hash)
    THEN SearchOnePast(last_proof, last_hash, proof + 1) - 1
    ELSE SearchSecond(last_proof, last_hash, proof + 1)

RECURSIVE Search(_, _, _)
Search(last_proof, last_hash, proof) ==
    IF validate(last_proof, proof, last_hash) THEN proof
    ELSE Search(last_proof, last_hash, proof + 1)

proof_of_work(last_block) ==
    Search(last_block.proof, hash(last_block), 0)

-----------------------------------------------------------------------------
(* valid_chain *)

\* valid_chain's loop without the previous_hash comparison
RECURSIVE ValidFromProofOnly(_, _, _)
ValidFromProofOnly(c, last_block, current_index) ==
    IF current_index > Len(c) THEN "True"
    ELSE LET block == c[current_index]
         IN  IF ~validate(last_block.proof, block.proof, hash(last_block))
             THEN "False"
             ELSE ValidFromProofOnly(c, block, current_index + 1)

\* valid_chain's loop without the proof check
RECURSIVE ValidFromHashOnly(_, _, _)
ValidFromHashOnly(c, last_block, current_index) ==
    IF current_index > Len(c) THEN "True"
    ELSE LET block == c[current_index]
         IN  IF block.previous_hash # hash(last_block) THEN "False"
             ELSE ValidFromHashOnly(c, block, current_index + 1)

RECURSIVE ValidFrom(_, _, _)
ValidFrom(c, last_block, current_index) ==
    IF current_index > Len(c) THEN "True"
    ELSE LET block == c[current_index]
             last_block_hash == hash(last_block)
         IN  IF block.previous_hash # last_block_hash THEN "False"
             ELSE IF ~validate(last_block.proof, block.proof, last_block_hash)
                  THEN "False"
             ELSE ValidFrom(c, block, current_index + 1)

\* "True", "False", or the exception chain[0] raises on an empty list
valid_chain(c) ==
    IF Len(c) = 0 THEN "IndexError" ELSE ValidFrom(c, c[1], 2)

-----------------------------------------------------------------------------
(* The Blockchain object.  `self` is [chain, heap, current_transactions]. *)

Times == {0}          \* values time() returns

\* the block as jsonify and json.dumps see it: the list object dereferenced
Json(h, block) == [block EXCEPT !.transactions = h[block.transactions]]

JsonChain(h, c) == [i \in 1..Len(c) |-> Json(h, c[i])]

\* GET /chain
full_chain(self) ==
    [chain |-> JsonChain(self.heap, self.chain), length |-> Len(self.chain)]

\* a reference no list object uses yet
RECURSIVE NewRefFrom(_, _)
NewRefFrom(used, r) == IF r \in used THEN NewRefFrom(used, r + 1) ELSE r

NewRef(used) == NewRefFrom(used, 1)

last_block(self) == self.chain[Len(self.chain)]

\* self.current_transactions.append(tx); return self.last_block['index'] + 1
new_transaction(self, sender, recipient, amount) ==
    LET tx == Transfer(sender, recipient, amount)
    IN  [self |-> [self EXCEPT !.heap[self.current_transactions] = Append(@, tx)],
         ret  |-> last_block(self).index + 1]

\* add_block clearing nothing: the pool stays the list the block refers to
add_block_shared(self, proof, previous_hash, now) ==
    LET block == [index |-> Len(self.chain) + 1,
                  timestamp |-> now,
                  transactions |-> self.current_transactions,
                  proof |-> proof,
                  previous_hash |-> previous_hash]
    IN  [self |-> [self EXCEPT !.chain = Append(self.chain, block)],
         ret  |-> block]

\* previous_hash = <<>> stands for a falsy argument (None, '')
add_block(self, proof, previous_hash, now) ==
    LET block == [index |-> Len(self.chain) + 1,
                  timestamp |-> now,
                  transactions |-> self.current_transactions,
                  proof |-> proof,
                  previous_hash |->
                      IF previous_hash # <<>> THEN previous_hash
                      ELSE hash(Json(self.heap, last_block(self)))]
        fresh == NewRef(DOMAIN self.heap)
    IN  [self |-> [chain |-> Append(self.chain, block),
                   heap |-> self.heap @@ (fresh :> <<>>),
                   current_transactions |-> fresh],
         ret  |-> block]

\* __init__ without the genesis block
ConstructedEmpty(now) ==
    [chain |-> <<>>, heap |-> (1 :> <<>>), current_transactions |-> 1]

\* __init__ up to self.nodes = set()
Constructed(now) ==
    add_block([chain |-> <<>>, heap |-> (1 :> <<>>), current_transactions |-> 1],
              GenesisProof, Secret, now).self

\* /mine adding the reward after the block was appended
mine_body_late_reward(self, now) ==
    LET lb == last_block(self)
        proof == proof_of_work(Json(self.heap, lb))
        previous_hash == hash(Json(self.heap, lb))
        r == add_block(self, proof, previous_hash, now)
    IN  [self |-> new_transaction(r.self, "0", node_identifier, 20).self,
         ret  |-> r.ret]

\* the body of the /mine handler
mine_body(self, now) ==
    LET lb == last_block(self)
        proof == proof_of_work(Json(self.heap, lb))
        s1 == new_transaction(self, "0", node_identifier, 20).self
        previous_hash == hash(Json(s1.heap, lb))
    IN  add_block(s1, proof, previous_hash, now)

-----------------------------------------------------------------------------
(* register_node *)

\* urlparse on an address given as its tokens: an optional scheme before ":",
\* a network location after "//" up to the next "/", and the rest as the path
urlparse(address) ==
    LET has_scheme == Len(address) >= 2 /\ address[2] = ":"
        rest == IF has_scheme THEN SubSeq(address, 3, Len(address)) ELSE address
        has_netloc == Len(rest) >= 1 /\ rest[1] = "//"
        after == IF has_netloc THEN SubSeq(rest, 2, Len(rest)) ELSE rest
        cut == IF \E i \in 1..Len(after) : after[i] = "/"
               THEN CHOOSE i \in 1..Len(after) :
                        /\ after[i] = "/"
                        /\ \A j \in 1..(i - 1) : after[j] # "/"
               ELSE Len(after) + 1
    IN  [scheme |-> IF has_scheme THEN address[1] ELSE "",
         netloc |-> IF has_netloc THEN SubSeq(after, 1, cut - 1) ELSE <<>>,
         path   |-> IF has_netloc THEN SubSeq(after, cut, Len(after)) ELSE rest]

\* a register_node that forgets a peer it already knows
register_node_toggle(ns, address) ==
    LET parsed_url == urlparse(address)
        peer == IF parsed_url.netloc # <<>> THEN parsed_url.netloc
                ELSE parsed_url.path
    IN  IF peer = <<>> THEN [nodes |-> ns, raised |-> "ValueError"]
        ELSE IF peer \in ns THEN [nodes |-> ns \ {peer}, raised |-> "none"]
        ELSE [nodes |-> ns \cup {peer}, raised |-> "none"]

\* the peer set after register_node(address), and the exception it raises
register_node(ns, address) ==
    LET parsed_url == urlparse(address)
    IN  IF parsed_url.netloc # <<>>
        THEN [nodes |-> ns \cup {parsed_url.netloc}, raised |-> "none"]
        ELSE IF parsed_url.path # <<>>
        THEN [nodes |-> ns \cup {parsed_url.path}, raised |-> "none"]
        ELSE [nodes |-> ns, raised |-> "ValueError"]

-----------------------------------------------------------------------------
(* Peers: what GET http://{node}/chain may answer *)

PeerReward == Transfer("0", "peer", 20)

GenesisBlock(now) ==
    [index |-> 1, timestamp |-> now, transactions |-> <<>>,
     proof |-> GenesisProof, previous_hash |-> Secret]

\* a proof that does not validate after block b
BadProof(b) == CHOOSE q \in 0..9 : ~validate(b.proof, q, hash(b))

\* the block a peer puts after block b at position n: as its own /mine would
\* ("good"), or with one field set differently
Link(kind, b, n) ==
    [index |-> IF kind = "index" THEN n + 1 ELSE n,
     timestamp |-> 0,
     transactions |-> <<PeerReward>>,
     proof |-> IF kind = "proof" THEN BadProof(b) ELSE proof_of_work(b),
     previous_hash |-> IF kind = "hash" THEN Secret ELSE hash(b)]

LinkKinds == {"good", "proof", "hash", "index"}

\* the chain of n >= 1 blocks whose k-th block is of the given kind
RECURSIVE PeerChain(_, _, _)
PeerChain(n, k, kind) ==
    IF n = 1 THEN <<GenesisBlock(0)>>
    ELSE LET c == PeerChain(n - 1, k, kind)
         IN  Append(c, Link(IF n = k THEN kind ELSE "good", c[n - 1], n))

PeerChains ==
    {<<>>} \cup
    {PeerChain(n, k, kind) : n \in 1..MaxPeerLen, k \in 2..MaxPeerLen, kind \in LinkKinds}

\* requests.get raises (connection refused, timeout), or answers with a status
\* code and, for 200, a body whose 'length' need not be the chain's length
Unreachable == [raises |-> TRUE, status_code |-> 0, length |-> 0, chain |-> <<>>]
NotFound == [raises |-> FALSE, status_code |-> 404, length |-> 0, chain |-> <<>>]

Responses ==
    {Unreachable, NotFound} \cup
    UNION {{[raises |-> FALSE, status_code |-> 200, length |-> l, chain |-> c] :
               l \in {Len(c), MaxPeerLen + 1}} : c \in PeerChains}

-----------------------------------------------------------------------------
(* resolve_conflicts *)

None == <<"None">>
List(c) == <<"list", c>>

\* the loop with `length >= max_length`
RECURSIVE PollFromTies(_, _, _, _)
PollFromTies(responses, i, max_length, new_chain) ==
    IF i > Len(responses)
    THEN [raised |-> "none", new_chain |-> new_chain]
    ELSE LET response == responses[i]
         IN  IF response.raises
             THEN [raised |-> "ConnectionError", new_chain |-> new_chain]
             ELSE IF response.status_code # 200 \/ response.length < max_length
             THEN PollFromTies(responses, i + 1, max_length, new_chain)
             ELSE LET valid == valid_chain(response.chain)
                  IN  IF valid = "IndexError"
                      THEN [raised |-> "IndexError", new_chain |-> new_chain]
                      ELSE IF valid = "True"
                      THEN PollFromTies(responses, i + 1, response.length,
                                        List(response.chain))
                      ELSE PollFromTies(responses, i + 1, max_length, new_chain)

\* the loop adopting the longer chain without asking valid_chain
RECURSIVE PollFromUnchecked(_, _, _, _)
PollFromUnchecked(responses, i, max_length, new_chain) ==
    IF i > Len(responses)
    THEN [raised |-> "none", new_chain |-> new_chain]
    ELSE LET response == responses[i]
         IN  IF response.raises
             THEN [raised |-> "ConnectionError", new_chain |-> new_chain]
             ELSE IF response.status_code # 200 \/ ~(response.length > max_length)
             THEN PollFromUnchecked(responses, i + 1, max_length, new_chain)
             ELSE PollFromUnchecked(responses, i + 1, response.length,
                                    List(response.chain))

\* the loop over the peers, from the i-th response on; an exception of
\* requests.get or of valid_chain leaves the loop and the function
RECURSIVE PollFrom(_, _, _, _)
PollFrom(responses, i, max_length, new_chain) ==
    IF i > Len(responses)
    THEN [raised |-> "none", new_chain |-> new_chain]
    ELSE LET response == responses[i]
         IN  IF response.raises
             THEN [raised |-> "ConnectionError", new_chain |-> new_chain]
             ELSE IF response.status_code # 200
             THEN PollFrom(responses, i + 1, max_length, new_chain)
             ELSE IF ~(response.length > max_length)
             THEN PollFrom(responses, i + 1, max_length, new_chain)
             ELSE LET valid == valid_chain(response.chain)
                  IN  IF valid = "IndexError"
                      THEN [raised |-> "IndexError", new_chain |-> new_chain]
                      ELSE IF valid = "True"
                      THEN PollFrom(responses, i + 1, response.length,
                                    List(response.chain))
                      ELSE PollFrom(responses, i + 1, max_length, new_chain)

\* `if new_chain:` -- neither None nor an empty list
Truthy(new_chain) == new_chain # None /\ new_chain[2] # <<>>

\* the n smallest references not in `used`
RECURSIVE FreshRefs(_, _)
FreshRefs(used, n) ==
    IF n = 0 THEN <<>>
    ELSE LET r == NewRef(used) IN <<r>> \o FreshRefs(used \cup {r}, n - 1)

\* self.chain = new_chain: the blocks of the decoded JSON body, each with a list
\* object of its own; the lists of the replaced chain are no longer referenced
Adopt(self, c) ==
    LET refs == FreshRefs({self.current_transactions}, Len(c))
        live == {self.current_transactions} \cup {refs[i] : i \in 1..Len(c)}
    IN  [chain |-> [i \in 1..Len(c) |-> [c[i] EXCEPT !.transactions = refs[i]]],
         heap  |-> [r \in live |->
                      IF r = self.current_transactions THEN self.heap[r]
                      ELSE c[CHOOSE i \in 1..Len(c) : refs[i] = r].transactions],
         current_transactions |-> self.current_transactions]

\* responses: the answers of the peers in the order the loop visits them
resolve_conflicts(self, responses) ==
    LET p == PollFrom(responses, 1, Len(self.chain), None)
    IN  IF p.raised # "none"
        THEN [self |-> self, raised |-> p.raised, ret |-> FALSE]
        ELSE IF Truthy(p.new_chain)
        THEN [self |-> Adopt(self, p.new_chain[2]), raised |-> "none", ret |-> TRUE]
        ELSE [self |-> self, raised |-> "none", ret |-> FALSE]

-----------------------------------------------------------------------------
(* The operations as actions *)

Self == [chain |-> chain, heap |-> heap,
         current_transactions |-> current_transactions]

SetSelf(self) ==
    /\ chain' = self.chain
    /\ heap' = self.heap
    /\ current_transactions' = self.current_transactions

Returned(op, raised, replaced, index) ==
    [op |-> op, raised |-> raised, replaced |-> replaced, index |-> index]

\* the pending pool and the chain as GET /chain shows it
Pool == heap[current_transactions]
Chain == JsonChain(heap, chain)

\* addresses handed to register_node
Addresses ==
    { <<"http", ":", "//", "10.0.0.5:5000">>,
      <<"10.0.0.5:5000">>,
      <<>> }

MoreAddresses == Addresses \cup { <<"notaurl">> }

\* the orders in which `for node in neighbors` may visit a set
Orders(S) ==
    {o \in [1..Cardinality(S) -> S] : \A i, j \in DOMAIN o : i # j => o[i] # o[j]}

\* the threads of the server, one request each
Threads == 1..MaxThreads
Idle == [pc |-> "idle", op |-> "none"]

\* blockchain = Blockchain()
Instantiated ==
    /\ \E now \in Times : \E self \in {Constructed(now)} :
          /\ chain = self.chain
          /\ heap = self.heap
          /\ current_transactions = self.current_transactions
    /\ nodes = {}
    /\ last = Returned("__init__", "none", FALSE, 0)
    /\ polled = None
    /\ requests = [t \in Threads |-> Idle]

Init ==
    /\ Instantiated
    /\ cand = <<>>
    /\ mutation = None
    /\ verdict = "none"

SubmitTransfer ==
    \E tx \in Submitted :
        /\ \A i \in 1..Len(Pool) : Pool[i] # tx
        /\ LET r == new_transaction(Self, tx.sender, tx.recipient, tx.amount)
           IN  /\ SetSelf(r.self)
               /\ last' = Returned("new_transaction", "none", FALSE, r.ret)
        /\ UNCHANGED <<nodes, polled, cand, mutation, verdict, requests>>

MineNextBlock ==
    \E now \in Times :
        /\ Len(chain) < MaxChain
        /\ LET r == mine_body(Self, now)
           IN  /\ SetSelf(r.self)
               /\ last' = Returned("mine", "none", FALSE, r.ret.index)
        /\ UNCHANGED <<nodes, polled, cand, mutation, verdict, requests>>

RegisterFrom(addresses) ==
    \E address \in addresses :
        LET r == register_node(nodes, address)
        IN  /\ nodes' = r.nodes
            /\ last' = Returned("register_node", r.raised, FALSE, 0)
            /\ UNCHANGED <<chain, heap, current_transactions, polled,
                           cand, mutation, verdict, requests>>

RegisterPeer == RegisterFrom(Addresses)

\* resolve_conflicts with the peers answering `answer`, visited in `order`
ResolveWith(order, answer) ==
    LET responses == [i \in 1..Len(order) |-> answer[order[i]]]
        r == resolve_conflicts(Self, responses)
    IN  /\ SetSelf(r.self)
        /\ last' = Returned("resolve_conflicts", r.raised, r.ret, 0)
        /\ UNCHANGED <<nodes, cand, mutation, verdict, requests>>

ResolveConsensus ==
    \E order \in Orders(nodes) : \E answer \in [nodes -> Responses] :
        /\ ResolveWith(order, answer)
        /\ UNCHANGED polled

Next ==
    \/ SubmitTransfer
    \/ MineNextBlock
    \/ RegisterPeer
    \/ ResolveConsensus

Spec == Init /\ [][Next]_vars

-----------------------------------------------------------------------------
(* One observed poll: any run of mining and registering, then a             *)
(* resolve_conflicts call whose peer responses are recorded.                 *)

RegisterMore ==
    /\ polled = None
    /\ RegisterFrom(MoreAddresses)

MineBefore ==
    /\ polled = None
    /\ MineNextBlock

ObservedResolve ==
    /\ polled = None
    /\ \E order \in Orders(nodes) : \E answer \in [nodes -> Responses] :
        /\ ResolveWith(order, answer)
        /\ polled' = <<"poll", [i \in 1..Len(order) |-> answer[order[i]]], Self>>

NextPoll ==
    \/ MineBefore
    \/ RegisterMore
    \/ ObservedResolve

SpecPoll == Init /\ [][NextPoll]_vars

-----------------------------------------------------------------------------
(* register_node observed: submitting and mining as before, and             *)
(* register_node calls whose address and peer set before the call are       *)
(* recorded.                                                                 *)

RegisterObserved ==
    \E address \in MoreAddresses :
        LET r == register_node(nodes, address)
        IN  /\ nodes' = r.nodes
            /\ last' = Returned("register_node", r.raised, FALSE, 0)
            /\ polled' = <<"register", address, nodes>>
            /\ UNCHANGED <<chain, heap, current_transactions,
                           cand, mutation, verdict, requests>>

NextPeers ==
    \/ SubmitTransfer
    \/ MineNextBlock
    \/ RegisterObserved

SpecPeers == Init /\ [][NextPeers]_vars

-----------------------------------------------------------------------------
(* Requests served concurrently: the server runs every request in a thread  *)
(* of its own.  A step is one statement's access to the fields of the       *)
(* shared object; the locals of a handler are kept in `requests`.  Where a  *)
(* statement reads several fields (the dict display of add_block) the reads *)
(* are one step, which leaves interleavings out and adds none.              *)

At(t, pc) == requests[t].pc = pc
Goto(t, rec) == requests' = [requests EXCEPT ![t] = rec]
Step(t, pc) == Goto(t, [requests[t] EXCEPT !.pc = pc])

\* the /mine requests that have not appended their block yet
Mining == {t \in Threads : requests[t].op = "mine" /\ requests[t].pc # "done"}

\* POST /transactions/new, line 131: self.current_transactions is loaded ...
SubmitLoad ==
    \E t \in Threads : \E tx \in Submitted :
        /\ At(t, "idle")
        /\ \A u \in Threads :
               requests[u].op = "new_transaction" => requests[u].tx # tx
        /\ Goto(t, [pc |-> "append", op |-> "new_transaction", tx |-> tx,
                    ref |-> current_transactions])
        /\ UNCHANGED <<chain, heap, current_transactions, nodes, last, polled,
                       cand, mutation, verdict>>

\* ... and .append(tx) is called on the list that was loaded
SubmitAppend ==
    \E t \in Threads :
        /\ At(t, "append")
        /\ heap' = [heap EXCEPT ![requests[t].ref] = Append(@, requests[t].tx)]
        /\ Step(t, "return")
        /\ UNCHANGED <<chain, current_transactions, nodes, last, polled,
                       cand, mutation, verdict>>

\* line 133: return self.last_block['index'] + 1
SubmitReturn ==
    \E t \in Threads :
        /\ At(t, "return")
        /\ Goto(t, [pc |-> "done", op |-> "new_transaction",
                    tx |-> requests[t].tx, ret |-> last_block(Self).index + 1])
        /\ UNCHANGED <<chain, heap, current_transactions, nodes, last, polled,
                       cand, mutation, verdict>>

\* GET /mine, line 245: last_block = blockchain.last_block
MineReadLast ==
    \E t \in Threads :
        /\ At(t, "idle")
        /\ Len(chain) + Cardinality(Mining) < MaxChain
        /\ Goto(t, [pc |-> "search", op |-> "mine", last_block |-> last_block(Self)])
        /\ UNCHANGED <<chain, heap, current_transactions, nodes, last, polled,
                       cand, mutation, verdict>>

\* line 246: proof = blockchain.proof_of_work(last_block)
MineSearch ==
    \E t \in Threads :
        /\ At(t, "search")
        /\ Goto(t, [pc |-> "load_pool", op |-> "mine",
                    last_block |-> requests[t].last_block,
                    proof |-> proof_of_work(Json(heap, requests[t].last_block))])
        /\ UNCHANGED <<chain, heap, current_transactions, nodes, last, polled,
                       cand, mutation, verdict>>

\* line 248, new_transaction('0', node_identifier, 20): the pool is loaded ...
MineLoadPool ==
    \E t \in Threads :
        /\ At(t, "load_pool")
        /\ Goto(t, [pc |-> "append_reward", op |-> "mine",
                    last_block |-> requests[t].last_block,
                    proof |-> requests[t].proof,
                    ref |-> current_transactions])
        /\ UNCHANGED <<chain, heap, current_transactions, nodes, last, polled,
                       cand, mutation, verdict>>

\* ... and the reward appended to the list that was loaded
MineAppendReward ==
    \E t \in Threads :
        /\ At(t, "append_reward")
        /\ heap' = [heap EXCEPT ![requests[t].ref] = Append(@, Reward)]
        /\ Goto(t, [pc |-> "hash_last", op |-> "mine",
                    last_block |-> requests[t].last_block,
                    proof |-> requests[t].proof])
        /\ UNCHANGED <<chain, current_transactions, nodes, last, polled,
                       cand, mutation, verdict>>

\* line 249: previous_hash = blockchain.hash(last_block)
MineHashLast ==
    \E t \in Threads :
        /\ At(t, "hash_last")
        /\ Goto(t, [pc |-> "build", op |-> "mine",
                    proof |-> requests[t].proof,
                    previous_hash |-> hash(Json(heap, requests[t].last_block))])
        /\ UNCHANGED <<chain, heap, current_transactions, nodes, last, polled,
                       cand, mutation, verdict>>

\* add_block, lines 148-154: the block is built
MineBuild ==
    \E t \in Threads : \E now \in Times :
        /\ At(t, "build")
        /\ Goto(t, [pc |-> "rebind", op |-> "mine",
                    block |-> [index |-> Len(chain) + 1,
                               timestamp |-> now,
                               transactions |-> current_transactions,
                               proof |-> requests[t].proof,
                               previous_hash |-> requests[t].previous_hash]])
        /\ UNCHANGED <<chain, heap, current_transactions, nodes, last, polled,
                       cand, mutation, verdict>>

\* line 155: self.current_transactions = []
MineRebind ==
    \E t \in Threads :
        /\ At(t, "rebind")
        /\ LET fresh == NewRef(DOMAIN heap)
           IN  /\ heap' = heap @@ (fresh :> <<>>)
               /\ current_transactions' = fresh
        /\ Step(t, "append_block")
        /\ UNCHANGED <<chain, nodes, last, polled, cand, mutation, verdict>>

\* line 156: self.chain.append(block), and the response
MineAppendBlock ==
    \E t \in Threads :
        /\ At(t, "append_block")
        /\ chain' = Append(chain, requests[t].block)
        /\ Step(t, "done")
        /\ UNCHANGED <<heap, current_transactions, nodes, last, polled,
                       cand, mutation, verdict>>

NextThreads ==
    \/ SubmitLoad
    \/ SubmitAppend
    \/ SubmitReturn
    \/ MineReadLast
    \/ MineSearch
    \/ MineLoadPool
    \/ MineAppendReward
    \/ MineHashLast
    \/ MineBuild
    \/ MineRebind
    \/ MineAppendBlock

SpecThreads == Init /\ [][NextThreads]_vars

-----------------------------------------------------------------------------
(* valid_chain on its own: a chain is grown block by block, each block      *)
(* linked to the one before it by digest and proof; one field of one block  *)
(* is then changed, or one block left out; valid_chain is applied.          *)

\* the proofs tried in a block that is to validate
Proofs == 0..(2 * Pow(Cardinality(HexDigits), difficulty) - 1)

TransferLists == {<<>>, <<PeerReward>>, <<Reward>>}

\* the blocks that may follow block b at position n in a chain that links
\* every block to its predecessor
LinkedBlocks(b, n) ==
    {[index |-> i, timestamp |-> 0, transactions |-> txs, proof |-> q,
      previous_hash |-> hash(b)] :
        i \in {n, n + 1}, txs \in {<<>>, <<PeerReward>>},
        q \in {q \in Proofs : validate(b.proof, q, hash(b))}}

RemoveAt(c, k) == SubSeq(c, 1, k - 1) \o SubSeq(c, k + 1, Len(c))

\* the values a field of block b may be changed to
FieldValues(field, b) ==
    CASE field = "transactions" -> TransferLists \ {b.transactions}
      [] field = "proof" -> (Proofs \cup {GenesisProof}) \ {b.proof}
      [] field = "previous_hash" -> {Secret, <<0>>, hash(b)} \ {b.previous_hash}
      [] field = "index" -> {b.index + 1}
      [] field = "timestamp" -> {b.timestamp + 1}

Fields == {"transactions", "proof", "previous_hash", "index", "timestamp"}

InitChain ==
    /\ Instantiated
    /\ cand = <<GenesisBlock(0)>>
    /\ mutation = None
    /\ verdict = "none"

Grow ==
    /\ mutation = None
    /\ verdict = "none"
    /\ Len(cand) < MaxCand
    /\ \E b \in LinkedBlocks(cand[Len(cand)], Len(cand) + 1) :
           cand' = Append(cand, b)
    /\ UNCHANGED <<chain, heap, current_transactions, nodes, last, polled,
                   mutation, verdict, requests>>

ChangeField ==
    /\ mutation = None
    /\ verdict = "none"
    /\ \E k \in 1..Len(cand), field \in Fields :
         \E v \in FieldValues(field, cand[k]) :
           /\ cand' = [cand EXCEPT ![k][field] = v]
           /\ mutation' = <<field, k, Len(cand)>>
    /\ UNCHANGED <<chain, heap, current_transactions, nodes, last, polled,
                   verdict, requests>>

OmitBlock ==
    /\ mutation = None
    /\ verdict = "none"
    /\ \E k \in 1..Len(cand) :
           /\ cand' = RemoveAt(cand, k)
           /\ mutation' = <<"omitted", k, Len(cand)>>
    /\ UNCHANGED <<chain, heap, current_transactions, nodes, last, polled,
                   verdict, requests>>

CheckChain ==
    /\ verdict = "none"
    /\ verdict' = valid_chain(cand)
    /\ UNCHANGED <<chain, heap, current_transactions, nodes, last, polled,
                   cand, mutation, requests>>

NextChain ==
    \/ Grow
    \/ ChangeField
    \/ OmitBlock
    \/ CheckChain

SpecChain == InitChain /\ [][NextChain]_vars

-----------------------------------------------------------------------------
(* Claims about valid_chain (SpecChain) *)

Contiguous(c) == \A i \in 1..Len(c) : c[i].index = i

Checked == verdict # "none"

\* C2 as stated: every chain whose blocks are linked and whose indices are
\* contiguous passes valid_chain, and every chain obtained by one change of a
\* field or by leaving out one block, at any position, and every chain with
\* inconsistent indices, is answered False.
C2_AnySingleMutationRejected ==
    Checked =>
        IF mutation = None /\ Contiguous(cand)
        THEN verdict = "True"
        ELSE verdict = "False"

\* C2 amended: every chain whose blocks are linked passes valid_chain; it is
\* answered False after a change of the transfers, proof or previous_hash of a
\* block that has a successor, after a change of the previous_hash of any
\* block but the first, and after leaving out a block that has both a
\* predecessor and a successor.
C2_LinkedMutationRejected ==
    Checked =>
        /\ mutation = None => verdict = "True"
        /\ mutation # None =>
             LET kind == mutation[1]
                 k == mutation[2]
                 n == mutation[3]
             IN  /\ (kind \in {"transactions", "proof", "previous_hash"} /\ k < n)
                        => verdict = "False"
                 /\ (kind = "previous_hash" /\ k >= 2) => verdict = "False"
                 /\ (kind = "omitted" /\ 1 < k /\ k < n) => verdict = "False"

\* a chain with an interior block left out was answered False
C2_Witness ==
    /\ verdict = "False"
    /\ mutation # None
    /\ mutation[1] = "omitted"
    /\ 1 < mutation[2]
    /\ mutation[2] < mutation[3]

\* C11 as stated: valid_chain applied to an empty chain answers False; it
\* neither answers True nor raises.
C11_EmptyChainFalse ==
    (Checked /\ cand = <<>>) => verdict = "False"

\* the pairs (prev, cur) of adjacent blocks that valid_chain compares
PairOk(prev, cur) ==
    /\ cur.previous_hash = hash(prev)
    /\ validate(prev.proof, cur.proof, hash(prev))

\* C12: on a non-empty chain valid_chain answers True when every adjacent pair
\* has cur.previous_hash = digest(prev) and a proof that validates against
\* prev, and False otherwise; the first block's own previous_hash and proof
\* are not looked at, so every one-block chain is answered True.
C12_TrueIffEveryPairLinked ==
    (Checked /\ cand # <<>>) =>
        /\ verdict \in {"True", "False"}
        /\ verdict = "True" <=>
               \A i \in 2..Len(cand) : PairOk(cand[i - 1], cand[i])
        /\ Len(cand) = 1 => verdict = "True"

\* a three-block chain whose digests all link was answered False for the
\* proof of its last block alone
C12_Witness ==
    /\ verdict = "False"
    /\ Len(cand) = 3
    /\ \A i \in 2..3 : cand[i].previous_hash = hash(cand[i - 1])
    /\ PairOk(cand[1], cand[2])
    /\ ~validate(cand[2].proof, cand[3].proof, hash(cand[2]))

-----------------------------------------------------------------------------
(* Claims about resolve_conflicts (SpecPoll) *)

Observed == polled # None
Answers == polled[2]
Before == polled[3]
OwnBefore == JsonChain(Before.heap, Before.chain)

\* the responses that carry a chain valid_chain accepts and a reported length
\* above the own chain's length
Eligible ==
    {i \in 1..Len(Answers) :
        /\ ~Answers[i].raises
        /\ Answers[i].status_code = 200
        /\ Answers[i].length > Len(OwnBefore)
        /\ valid_chain(Answers[i].chain) = "True"}

Skipped ==
    {i \in 1..Len(Answers) : Answers[i].raises \/ Answers[i].status_code # 200}

\* C1 as stated (lengths as the peers report them): the call answers True or
\* False; when some peer serves a chain that is reported longer than the own
\* chain and passes valid_chain, the answer is True and the chain is one of
\* those chains; otherwise the answer is False and the chain is as before.
C1_ReplacedIffLongerValid ==
    Observed =>
        /\ last.raised = "none"
        /\ IF Eligible # {}
           THEN /\ last.replaced
                /\ \E i \in Eligible : Chain = Answers[i].chain
           ELSE /\ ~last.replaced
                /\ Chain = OwnBefore

\* C5 as stated: a peer that cannot be reached or answers with another status
\* than 200 surfaces no error, and the call ends as it would have ended
\* without that peer.
C5_SkippedPeerChangesNothing ==
    Observed =>
        \A i \in Skipped :
            LET without == resolve_conflicts(Before, RemoveAt(Answers, i))
            IN  /\ last.raised # "ConnectionError"
                /\ last.raised = without.raised
                /\ last.replaced = without.ret
                /\ Chain = JsonChain(without.self.heap, without.self.chain)

\* C6: when the call replaces the chain, the adopted chain is that of the
\* first response, in iteration order, that has the greatest reported length
\* among the eligible ones.
C6_FirstLongestAdopted ==
    (Observed /\ last.replaced) =>
        \E i \in Eligible :
            /\ \A j \in Eligible : Answers[j].length <= Answers[i].length
            /\ \A j \in Eligible : Answers[j].length = Answers[i].length => i <= j
            /\ Chain = Answers[i].chain

\* two peers served different valid chains of the same greatest length
C6_Witness ==
    /\ Observed
    /\ last.replaced
    /\ \E i, j \in Eligible :
          /\ i < j
          /\ Answers[i].length = Answers[j].length
          /\ Answers[i].chain # Answers[j].chain
          /\ \A k \in Eligible : Answers[k].length <= Answers[i].length
          /\ Chain = Answers[i].chain

\* C15 as stated: with every peer answering, no chain a peer serves, an empty
\* one included, makes the call raise, and when some peer serves a valid chain
\* reported longer than the own chain the call adopts such a chain, whatever
\* the other peers served.
C15_InvalidCandidateSkipped ==
    (Observed /\ \A i \in 1..Len(Answers) : ~Answers[i].raises) =>
        /\ last.raised = "none"
        /\ Eligible # {} =>
              /\ last.replaced
              /\ \E i \in Eligible : Chain = Answers[i].chain

-----------------------------------------------------------------------------
(* Claims about the ledger (Spec) *)

LastOf(c) == c[Len(c)]

\* C3 as stated: the blocks of the chain carry the indices 1..N in order.
C3_IndicesContiguous == Contiguous(Chain)

\* C4 as stated: the block /mine appends holds exactly the transfers that were
\* pending when /mine was called, and the pool is empty afterwards.
C4_BlockIsPoolAtCall ==
    [][last'.op = "mine" =>
          /\ LastOf(Chain').transactions = Pool
          /\ Pool' = <<>>]_vars

\* C4 amended: the block /mine appends holds the transfers that were pending
\* when /mine was called, in their order, followed by the one reward transfer
\* (sender "0", recipient the node identifier, amount 20) that /mine itself
\* submits; the pool is empty afterwards.  With an empty pool the block holds
\* the reward alone.
C4_BlockIsPoolThenReward ==
    [][last'.op = "mine" =>
          /\ LastOf(Chain').transactions = Append(Pool, Reward)
          /\ Pool' = <<>>]_vars

\* a block was mined from a pool of two different transfers
C4_Witness ==
    /\ last.op = "mine"
    /\ Pool = <<>>
    /\ Len(LastOf(Chain).transactions) = 3
    /\ LastOf(Chain).transactions[1] # LastOf(Chain).transactions[2]
    /\ LastOf(Chain).transactions[3] = Reward

\* C7: the block /mine appends comes right after the block that was last when
\* /mine was called, carries the index len(chain)+1, the digest of that block
\* as previous_hash, and a proof that validates against that block.
C7_MinedBlockLinked ==
    [][last'.op = "mine" =>
          LET pred == LastOf(Chain)
              block == LastOf(Chain')
          IN  /\ Len(Chain') = Len(Chain) + 1
              /\ Chain'[Len(Chain)] = pred
              /\ block.index = Len(Chain) + 1
              /\ last'.index = block.index
              /\ block.previous_hash = hash(pred)
              /\ validate(pred.proof, block.proof, hash(pred))]_vars

\* the first block mined after genesis has index 2 and is linked to genesis
C7_Witness ==
    /\ last.op = "mine"
    /\ Len(Chain) = 2
    /\ last.index = 2
    /\ Chain[2].previous_hash = hash(Chain[1])
    /\ Chain[1].previous_hash = Secret

\* C8: every step leaves the chain as it is, or appends one block behind the
\* unchanged blocks, or (resolve_conflicts answering True only) replaces the
\* chain by a chain a peer served; new_transaction leaves the chain as it is.
C8_AppendOrReplaceOnly ==
    [][/\ \/ Chain' = Chain
          \/ /\ Len(Chain') = Len(Chain) + 1
             /\ SubSeq(Chain', 1, Len(Chain)) = Chain
          \/ /\ last'.op = "resolve_conflicts"
             /\ last'.replaced
             /\ Chain' \in PeerChains
       /\ last'.op = "new_transaction" => Chain' = Chain]_vars

\* a transfer was submitted after a block with transfers was mined
C8_Witness ==
    /\ last.op = "new_transaction"
    /\ Len(Chain) >= 2
    /\ Pool # <<>>
    /\ LastOf(Chain).transactions # <<>>
    /\ LastOf(Chain).transactions[1] \in Submitted

\* C9: the chain is never empty.
C9_ChainNeverEmpty == Len(chain) >= 1

\* a peer served an empty chain under a length above the own chain's: the call
\* raised and the chain stayed
C9_Witness ==
    /\ last.op = "resolve_conflicts"
    /\ last.raised = "IndexError"
    /\ Len(chain) >= 1

\* C10 as stated: new_transaction puts the transfer at the end of the pool,
\* leaves the chain as it is and returns last_block.index + 1; a /mine that
\* follows it appends a block whose index is the number returned.
C10_HintIsNextMinedIndex ==
    [][/\ last'.op = "new_transaction" =>
             /\ Chain' = Chain
             /\ \E tx \in Submitted : Pool' = Append(Pool, tx)
             /\ last'.index = LastOf(Chain).index + 1
       /\ (last.op = "new_transaction" /\ last'.op = "mine") =>
             LastOf(Chain').index = last.index]_vars

\* C13: the proof /mine puts into its block is the smallest non-negative
\* integer that validates against the block that was last, every smaller one
\* having failed, and proof_of_work applied again to that block, after the
\* pool and the chain have changed, returns the same proof.
C13_SmallestProofFound ==
    [][last'.op = "mine" =>
          LET pred == LastOf(Chain)
              p == LastOf(Chain').proof
          IN  /\ p \in Nat
              /\ validate(pred.proof, p, hash(pred))
              /\ \A q \in 0..(p - 1) : ~validate(pred.proof, q, hash(pred))
              /\ proof_of_work(Chain'[Len(Chain)]) = p]_vars

\* a third block was mined whose proof is not the first integer tried
C13_Witness ==
    /\ last.op = "mine"
    /\ Len(Chain) = 3
    /\ LastOf(Chain).proof > 0
    /\ proof_of_work(Chain[2]) = LastOf(Chain).proof

\* C18: after every request served on its own (submitting, mining,
\* registering, resolving against peers that serve any chain), the own chain
\* passes valid_chain: every block but the first carries the digest of its
\* predecessor as previous_hash and a proof that validates against it.
C18_OwnChainValid ==
    /\ valid_chain(Chain) = "True"
    /\ \A i \in 2..Len(Chain) : PairOk(Chain[i - 1], Chain[i])

\* a block was mined on top of a chain adopted from a peer
C18_Witness ==
    /\ last.op = "mine"
    /\ Len(Chain) = 3
    /\ Chain[2].transactions = <<PeerReward>>
    /\ LastOf(LastOf(Chain).transactions) = Reward

\* C19 as stated: whenever resolve_conflicts replaces the chain, the adopted
\* chain holds more blocks than the chain it replaces, whatever length the
\* peer reported.
C19_AdoptedChainHasMoreBlocks ==
    [][(last'.op = "resolve_conflicts" /\ last'.replaced) =>
          Len(Chain') > Len(Chain)]_vars

-----------------------------------------------------------------------------
(* Claims about register_node (SpecPeers) *)

Registered == last.op = "register_node" /\ polled # None
Address == polled[2]
NodesBefore == polled[3]

\* C14 as stated: register_node stores the network location of the address
\* when it has one, otherwise its path when it has one, and otherwise raises
\* and leaves the peer set as it was; the scheme-less address "notaurl" is
\* rejected and not added.
C14_NotaurlRejected ==
    Registered =>
        LET u == urlparse(Address)
        IN  IF Address = <<"notaurl">>
            THEN last.raised = "ValueError" /\ nodes = NodesBefore
            ELSE IF u.netloc # <<>>
            THEN last.raised = "none" /\ nodes = NodesBefore \cup {u.netloc}
            ELSE IF u.path # <<>>
            THEN last.raised = "none" /\ nodes = NodesBefore \cup {u.path}
            ELSE last.raised = "ValueError" /\ nodes = NodesBefore

\* C17: register_node leaves the chain and the pool as they are; registering
\* the address of the call before again, or any address whose peer is already
\* in the peer set, leaves the peer set as it is, and so would one more call
\* with the same address.
C17_ReRegisterNoOp ==
    [][last'.op = "register_node" =>
          LET a == polled'[2]
              u == urlparse(a)
          IN  /\ Chain' = Chain
              /\ Pool' = Pool
              /\ (Registered /\ last.raised = "none" /\ Address = a)
                     => nodes' = nodes
              /\ (u.netloc \in nodes \/ (u.netloc = <<>> /\ u.path \in nodes))
                     => nodes' = nodes
              /\ register_node(nodes', a).nodes = nodes']_vars

\* a peer already in the set was registered again, with a block mined and a
\* transfer pending
C17_Witness ==
    /\ Registered
    /\ last.raised = "none"
    /\ NodesBefore = nodes
    /\ urlparse(Address).netloc \in nodes
    /\ Len(Chain) >= 2
    /\ Pool # <<>>

-----------------------------------------------------------------------------
(* Claims about concurrent requests (SpecThreads) *)

Quiescent == \A t \in Threads : requests[t].pc \in {"idle", "done"}

\* the transfers whose new_transaction call has returned
Acknowledged ==
    {requests[t].tx : t \in {u \in Threads : /\ requests[u].op = "new_transaction"
                                             /\ requests[u].pc = "done"}}

\* the places (block, position) of the chain that hold transfer tx
PlacesIn(c, tx) ==
    UNION {{<<i, j>> : j \in {k \in 1..Len(c[i].transactions) :
                                 c[i].transactions[k] = tx}} : i \in 1..Len(c)}

InPool(h, ref, tx) == \E k \in 1..Len(h[ref]) : h[ref][k] = tx

\* C16 as stated: under every interleaving of new_transaction and /mine
\* requests, no step adds a transfer to a block that is already in the chain,
\* no submitted transfer is held by more than one place of chain and pool,
\* and once every request has returned each acknowledged transfer is in the
\* pool or in exactly one block.
C16_TransferInExactlyOneBlock ==
    [][/\ \A i \in 1..Len(Chain) : Chain'[i] = Chain[i]
       /\ \A tx \in Submitted :
             /\ Cardinality(PlacesIn(Chain', tx)) <= 1
             /\ ~(PlacesIn(Chain', tx) # {} /\ InPool(heap', current_transactions', tx))
       /\ Quiescent' =>
             \A tx \in Acknowledged' :
                 \/ InPool(heap', current_transactions', tx)
                 \/ PlacesIn(Chain', tx) # {}]_vars

\* C20 as stated: once /mine requests that ran interleaved (and no other
\* request) have all returned, the chain passes valid_chain, its indices are
\* contiguous, and no two blocks carry the same previous_hash and proof.
C20_InterleavedMinesValid ==
    (Quiescent /\ \A t \in Threads : requests[t].op # "new_transaction") =>
        /\ valid_chain(Chain) = "True"
        /\ Contiguous(Chain)
        /\ \A i, j \in 1..Len(Chain) :
              (i # j) => ~(/\ Chain[i].previous_hash = Chain[j].previous_hash
                           /\ Chain[i].proof = Chain[j].proof)

=============================================================================
